---- MODULE Spec2Model ----
(***************************************************************************)
(* The Firestore "exp" document/query API of                               *)
(* packages/firestore/exp/src/api/reference.ts: every public operation     *)
(* checks the client, validates its arguments, creates its Deferred or     *)
(* listener and enqueues one task on firestore._queue.  The queue, the     *)
(* Deferred, the AsyncObserver, the sync engine, the local store and the   *)
(* event manager are collaborators of reference.ts.                        *)
(***************************************************************************)
EXTENDS Integers, Sequences, FiniteSets, TLC

\* ------------------------------------------------------------ bounds
\* Number of public calls (failed ones included) one behaviour makes.
MaxCalls == 3
\* Number of trailing varargs updateDoc is called with, at most.
MaxVarargs == 2

\* ------------------------------------------------------------ values
TheDoc == <<"doc", "a">>
AutoKey(id) == <<"auto", id>>
NoKey == <<"none", "-">>
\* The collection every document of the model lives in: the target of
\* getDocs* and of onSnapshot on a Query.
TheCollection == <<"coll", "-">>

\* A Query of the model: without limit or order, or a limitToLast query
\* with or without an explicit orderBy.
Queries ==
  {q \in [limitToLast : BOOLEAN, orderBy : BOOLEAN] :
     q.limitToLast \/ ~q.orderBy}
NoQuery == [limitToLast |-> FALSE, orderBy |-> FALSE]

NoVal ==
  [writes |-> {}, docs |-> {}, exists |-> FALSE, pending |-> FALSE,
   fromCache |-> FALSE]

\* The options argument of onSnapshot: none passed, an object without the
\* field, or an object with includeMetadataChanges false or true.
Options == {"none", "empty", "false", "true"}

\* internalOptions as it would be if the default options object held
\* includeMetadataChanges: true.
internalOptions_DefaultTrue(o) ==
  CASE o = "none"  -> "true"
    [] o = "empty" -> "undefined"
    [] OTHER       -> o

\* internalOptions.includeMetadataChanges: the field of the object passed,
\* or of the default { includeMetadataChanges: false } where none was.
internalOptions(o) ==
  CASE o = "none"  -> "false"
    [] o = "empty" -> "undefined"
    [] OTHER       -> o

VARIABLES
  terminated,   \* firestore._terminated
  nextId,       \* the number the next enqueued task gets (submission order)
  ncalls,       \* public calls made so far
  lastCall,     \* the public call the latest step made, and how it ended
  queue,        \* firestore._queue: the tasks accepted and not yet started
  running,      \* the tasks that have started and not finished
  lastStarted,  \* id of the task started last
  deferred,     \* the Deferred of every read and write: id -> cell
  cache,        \* the local view: the writes applied locally, in order
  pipeline,     \* writes forwarded to the commit channel, not yet answered
  listeners,    \* every AsyncObserver created: id -> its state
  registry,     \* the listeners the event manager holds
  commits,      \* id -> the commit channel's answer to that write
  timers,       \* callbacks the AsyncObservers scheduled, not yet run
  delivered,    \* id -> number of invocations of that listener's next
  active        \* the listener whose callback is executing, or 0

vars == <<terminated, nextId, ncalls, lastCall, queue, running,
          lastStarted, deferred, cache, pipeline, commits, listeners,
          registry, timers, delivered, active>>

\* ------------------------------------------------------------ helpers
Call(op, q, form, n, out) ==
  [op |-> op, q |-> q, form |-> form, n |-> n, out |-> out]

\* The latest step was no public call.
NoCall == Call("-", NoQuery, "-", 0, "-")

\* A finite set of numbers as the ascending sequence of its members.
RECURSIVE Ascending(_)
Ascending(S) ==
  IF S = {} THEN <<>>
  ELSE LET m == CHOOSE x \in S : \A y \in S : x <= y
       IN <<m>> \o Ascending(S \ {m})

RECURSIVE Remove(_, _)
Remove(s, id) ==
  IF s = <<>> THEN <<>>
  ELSE IF Head(s).id = id THEN Remove(Tail(s), id)
  ELSE <<Head(s)>> \o Remove(Tail(s), id)

RECURSIVE Mark(_, _, _)
Mark(s, id, st) ==
  IF s = <<>> THEN <<>>
  ELSE <<IF Head(s).id = id THEN [Head(s) EXCEPT !.st = st] ELSE Head(s)>>
       \o Mark(Tail(s), id, st)

Task(id, kind, key, src, wk, pre, def, lst) ==
  [id |-> id, kind |-> kind, key |-> key, src |-> src, wk |-> wk,
   pre |-> pre, def |-> def, lst |-> lst]

\* ------------------------------------------------------------ Deferred
\* util/promise Deferred: a one-shot cell.  n counts the calls of resolve
\* or reject made on it, by the task named in `by`.
\* op is the public operation that created the cell.
NewDeferred(op) ==
  [op |-> op, st |-> "pending", val |-> NoVal, by |-> 0, n |-> 0]

Settle(cell, st, val, by) ==
  [op  |-> cell.op,
   st  |-> IF cell.st = "pending" THEN st ELSE cell.st,
   val |-> IF cell.st = "pending" THEN val ELSE cell.val,
   by  |-> IF cell.st = "pending" THEN by ELSE cell.by,
   n   |-> cell.n + 1]

\* ------------------------------------------------------------ AsyncQueue
\* enqueueAndForget: the task joins the end of the lane, unless the client
\* was torn down, when the queue refuses it.
enqueueAndForget(q, t) == IF terminated THEN q ELSE Append(q, t)

\* ------------------------------------------------------------ local view
EntriesOf(c, key) ==
  SelectSeq(c, LAMBDA e : key = TheCollection \/ e.key = key)

\* Whether the document exists after the writes of `s` (all on one key) are
\* applied in order: set and add create it, delete removes it, and an update
\* changes it only where it exists.
RECURSIVE ExistsAfter(_, _)
ExistsAfter(s, was) ==
  IF s = <<>> THEN was
  ELSE ExistsAfter(Tail(s),
         CASE Head(s).wk = "set"    -> TRUE
           [] Head(s).wk = "add"    -> TRUE
           [] Head(s).wk = "delete" -> FALSE
           [] OTHER                 -> was)

\* The documents of the view of `key`: the keys it covers that exist.
DocsOf(c, key) ==
  LET es == EntriesOf(c, key)
  IN IF key = TheCollection
     THEN {k \in {es[i].key : i \in DOMAIN es} :
             ExistsAfter(EntriesOf(c, k), FALSE)}
     ELSE IF ExistsAfter(es, FALSE) THEN {key} ELSE {}

\* The view snapshot of a document key, or of the whole collection.
ViewOf(c, key, src) ==
  LET es == EntriesOf(c, key)
      ds == DocsOf(c, key)
  IN [writes    |-> {es[i].id : i \in DOMAIN es},
      docs      |-> ds,
      exists    |-> ds # {},
      pending   |-> \E i \in DOMAIN es : es[i].st = "pending",
      fromCache |-> (src = "cache")]

\* ------------------------------------------------------------ AsyncObserver
\* next()/error() of an AsyncObserver schedule the user callback unless the
\* observer is muted; the scheduled callback checks the mute again when it
\* runs (Deliver).  n numbers the events sent to the observer.
ObserverNext(tm, l, v) ==
  IF listeners[l].muted THEN tm
  ELSE Append(tm, [l |-> l, kind |-> "next", snap |-> v,
                   n |-> listeners[l].sent + 1])

ObserverError(tm, l) ==
  IF listeners[l].muted THEN tm
  ELSE Append(tm, [l |-> l, kind |-> "error", snap |-> NoVal,
                   n |-> listeners[l].sent + 1])

\* The listeners of `ls`, in order, are each sent an error.
RECURSIVE ErrorAll(_, _)
ErrorAll(tm, ls) ==
  IF ls = <<>> THEN tm
  ELSE ErrorAll(ObserverError(tm, Head(ls)), Tail(ls))

\* The listeners of `ls`, in order, are each sent the view of their target
\* in the local view `c`; a snapshots-in-sync listener is sent no payload.
RECURSIVE NotifyAll(_, _, _)
NotifyAll(tm, ls, c) ==
  IF ls = <<>> THEN tm
  ELSE NotifyAll(ObserverNext(tm, Head(ls),
                   IF listeners[Head(ls)].sync THEN NoVal
                   ELSE ViewOf(c, listeners[Head(ls)].target, "default")),
                 Tail(ls), c)

\* ------------------------------------------------------------ event manager
\* The registered query listeners the change of `key` affects.
Affected(key) ==
  {l \in registry : ~listeners[l].sync
                    /\ (listeners[l].target = key
                        \/ listeners[l].target = TheCollection)}

\* Two view snapshots differ in their documents, or in their metadata only.
ContentDiffers(v, w) == v.writes # w.writes \/ v.exists # w.exists
MetadataDiffers(v, w) == v.pending # w.pending \/ v.fromCache # w.fromCache

\* QueryListener.onViewSnapshot: the first snapshot of a listener is always
\* raised; a later one is raised when its documents changed, and when only
\* its metadata changed if includeMetadataChanges is true.
ShouldRaise(l, v) ==
  \/ listeners[l].sent = 0
  \/ ContentDiffers(listeners[l].snap, v)
  \/ /\ MetadataDiffers(listeners[l].snap, v)
     /\ listeners[l].imc = "true"

\* The query listeners of `ls` that raise the view of their target in `c`.
Raising(ls, c) ==
  {l \in ls : ShouldRaise(l, ViewOf(c, listeners[l].target, "default"))}

SyncListeners == {l \in registry : listeners[l].sync}

\* The event manager raises one batch: the query listeners of `ls` that
\* raise, in order, then, if any did, the snapshots-in-sync listeners.
RaiseBatch(tm, ls, c) ==
  LET rs == Raising(ls, c)
  IN IF rs = {} THEN tm
     ELSE NotifyAll(NotifyAll(tm, Ascending(rs), c),
                    Ascending(SyncListeners), c)

\* The listeners after that batch: each one a snapshot was raised to
\* remembers it as the snapshot raised last.
AfterBatch(ls, c) ==
  LET rs == Raising(ls, c)
  IN
  IF rs = {} THEN listeners
  ELSE [l \in DOMAIN listeners |->
          IF l \in rs
          THEN [listeners[l] EXCEPT
                  !.snap = ViewOf(c, listeners[l].target, "default"),
                  !.sent = @ + 1]
          ELSE IF l \in SyncListeners
          THEN [listeners[l] EXCEPT !.sent = @ + 1]
          ELSE listeners[l]]

\* ------------------------------------------------------------ validation
\* validateHasExplicitOrderByForLimitToLast: throws for a limitToLast query
\* that has no explicit orderBy.
validateHasExplicitOrderByForLimitToLast(q) == ~(q.limitToLast /\ ~q.orderBy)

\* The arguments of updateDoc: an UpdateData object with n fields, or a
\* field, a value and n trailing varargs.
UpdateArgs ==
  [form : {"object"}, n : 0..1] \cup [form : {"varargs"}, n : 0..MaxVarargs]

\* parseUpdateData / parseUpdateVarargs: throw for an update of no field and
\* for trailing varargs that do not pair up.
parseUpdateOk(a) ==
  IF a.form = "object" THEN a.n > 0 ELSE a.n % 2 = 0

\* ------------------------------------------------------------ snapshots
\* What the user holds before any snapshot was delivered.
NoSnapshot ==
  [key |-> NoKey, exists |-> FALSE, hasPendingWrites |-> FALSE,
   fromCache |-> FALSE, size |-> 0]

\* convertToDocSnapshot as it would be if it built the metadata anew
\* instead of taking it from the view snapshot.
convertToDocSnapshot_FreshMetadata(ref, snapshot) ==
  [key              |-> ref,
   exists           |-> ref \in snapshot.docs,
   hasPendingWrites |-> FALSE,
   fromCache        |-> FALSE,
   size             |-> Cardinality(snapshot.docs)]

\* convertToDocSnapshot: the DocumentSnapshot of `ref` out of a view
\* snapshot; size is the snapshot.docs.size its debugAssert looks at.
convertToDocSnapshot(ref, snapshot) ==
  [key              |-> ref,
   exists           |-> ref \in snapshot.docs,
   hasPendingWrites |-> snapshot.pending,
   fromCache        |-> snapshot.fromCache,
   size             |-> Cardinality(snapshot.docs)]

\* new QuerySnapshot(firestore, query, snapshot).
QuerySnapshot(query, snapshot) ==
  [key              |-> query,
   exists           |-> snapshot.docs # {},
   hasPendingWrites |-> snapshot.pending,
   fromCache        |-> snapshot.fromCache,
   size             |-> Cardinality(snapshot.docs)]

\* observer.next of onSnapshot: what the user's next callback is called
\* with, for a listener on a DocumentReference and for one on a Query.
observerNext(target, snapshot) ==
  IF target = TheCollection THEN QuerySnapshot(target, snapshot)
  ELSE convertToDocSnapshot(target, snapshot)

\* getDocFromCacheResult as it would be if it took the metadata of the view
\* snapshot, as convertToDocSnapshot does.
getDocFromCacheResult_ViewMetadata(id) ==
  convertToDocSnapshot(TheDoc, deferred[id].val)

\* What the caller of getDocFromCache holds once the read resolved: a
\* DocumentSnapshot of the document read, or of none, with the metadata
\* (doc instanceof Document ? doc.hasLocalMutations : false, fromCache true).
getDocFromCacheResult(id) ==
  [key              |-> TheDoc,
   exists           |-> TheDoc \in deferred[id].val.docs,
   hasPendingWrites |-> TheDoc \in deferred[id].val.docs
                          /\ deferred[id].val.pending,
   fromCache        |-> TRUE,
   size             |-> Cardinality(deferred[id].val.docs)]

\* What the caller of getDoc and getDocFromServer holds once the read
\* resolved: deferred.promise.then(s => convertToDocSnapshot(..., ref, s)).
getDocResult(id) == convertToDocSnapshot(TheDoc, deferred[id].val)

\* ------------------------------------------------------------ public calls
\* A call that throws before it creates or enqueues anything.
Throws(op, q, a, out) ==
  /\ lastCall' = Call(op, q, a.form, a.n, out)
  /\ ncalls' = ncalls + 1
  /\ UNCHANGED <<active, terminated, nextId, queue, running, lastStarted,
                 deferred, cache, pipeline, commits, listeners, registry,
                 timers, delivered>>

NoArgs == [form |-> "-", n |-> 0]

\* A read: one Deferred and one task reading `key` from `src`; the call
\* throws when the queue refuses the task.
EnqueueRead(op, key, src, q) ==
  IF terminated THEN Throws(op, q, NoArgs, "terminated")
  ELSE /\ deferred' = deferred @@ (nextId :> NewDeferred(op))
       /\ queue' = enqueueAndForget(queue,
                     Task(nextId, "read", key, src, "-", "-", nextId, 0))
       /\ nextId' = nextId + 1
       /\ lastCall' = Call(op, q, "-", 0, "ok")
       /\ ncalls' = ncalls + 1
       /\ UNCHANGED <<active, terminated, running, lastStarted, cache,
                      pipeline, commits, listeners, registry, timers,
                      delivered>>

getDoc ==
  /\ ncalls < MaxCalls
  /\ IF terminated THEN Throws("getDoc", NoQuery, NoArgs, "terminated")
     ELSE EnqueueRead("getDoc", TheDoc, "default", NoQuery)

\* getDocFromCache as it would be if it read the local store in the call,
\* not in a task of the queue.
getDocFromCache_ReadsNow ==
  /\ ncalls < MaxCalls
  /\ IF terminated THEN Throws("getDocFromCache", NoQuery, NoArgs, "terminated")
     ELSE /\ deferred' = deferred @@
               (nextId :> Settle(NewDeferred("getDocFromCache"), "resolved",
                                 ViewOf(cache, TheDoc, "cache"), nextId))
          /\ nextId' = nextId + 1
          /\ lastCall' = Call("getDocFromCache", NoQuery, "-", 0, "ok")
          /\ ncalls' = ncalls + 1
          /\ UNCHANGED <<active, terminated, queue, running, lastStarted,
                         cache, pipeline, commits, listeners, registry,
                         timers, delivered>>

getDocFromCache ==
  /\ ncalls < MaxCalls
  /\ IF terminated THEN Throws("getDocFromCache", NoQuery, NoArgs, "terminated")
     ELSE EnqueueRead("getDocFromCache", TheDoc, "cache", NoQuery)

getDocFromServer ==
  /\ ncalls < MaxCalls
  /\ IF terminated THEN Throws("getDocFromServer", NoQuery, NoArgs, "terminated")
     ELSE EnqueueRead("getDocFromServer", TheDoc, "server", NoQuery)

getDocs(q) ==
  /\ ncalls < MaxCalls
  /\ IF terminated THEN Throws("getDocs", q, NoArgs, "terminated")
     ELSE IF ~validateHasExplicitOrderByForLimitToLast(q)
     THEN Throws("getDocs", q, NoArgs, "invalid")
     ELSE EnqueueRead("getDocs", TheCollection, "default", q)

getDocsFromCache(q) ==
  /\ ncalls < MaxCalls
  /\ IF terminated THEN Throws("getDocsFromCache", q, NoArgs, "terminated")
     ELSE EnqueueRead("getDocsFromCache", TheCollection, "cache", q)

getDocsFromServer(q) ==
  /\ ncalls < MaxCalls
  /\ IF terminated THEN Throws("getDocsFromServer", q, NoArgs, "terminated")
     ELSE EnqueueRead("getDocsFromServer", TheCollection, "server", q)

\* executeWrite as it would be if it ran its task at once, not on the queue.
executeWrite_Inline(op, key, wk, pre, a) ==
  /\ deferred' = deferred @@ (nextId :> NewDeferred(op))
  /\ running' = running \cup
                  {Task(nextId, "write", key, "-", wk, pre, nextId, 0)}
  /\ nextId' = nextId + 1
  /\ lastCall' = Call(op, NoQuery, a.form, a.n, "ok")
  /\ ncalls' = ncalls + 1
  /\ UNCHANGED <<active, terminated, queue, lastStarted, cache,
                 pipeline, commits, listeners, registry, timers, delivered>>

\* executeWrite as it would be if it resolved its Deferred once the task is
\* enqueued.
executeWrite_ResolvesEarly(op, key, wk, pre, a) ==
  /\ deferred' = deferred @@
       (nextId :> Settle(NewDeferred(op), "resolved", NoVal, nextId))
  /\ queue' = enqueueAndForget(queue,
                Task(nextId, "write", key, "-", wk, pre, nextId, 0))
  /\ nextId' = nextId + 1
  /\ lastCall' = Call(op, NoQuery, a.form, a.n, "ok")
  /\ ncalls' = ncalls + 1
  /\ UNCHANGED <<active, terminated, running, lastStarted, cache,
                 pipeline, commits, listeners, registry, timers, delivered>>

\* executeWrite as it would be if its task were handed the Deferred of the
\* call before it.
executeWrite_SharedDeferred(op, key, wk, pre, a) ==
  /\ deferred' = deferred @@ (nextId :> NewDeferred(op))
  /\ queue' = enqueueAndForget(queue,
                Task(nextId, "write", key, "-", wk, pre,
                     IF (nextId - 1) \in DOMAIN deferred
                     THEN nextId - 1 ELSE nextId, 0))
  /\ nextId' = nextId + 1
  /\ lastCall' = Call(op, NoQuery, a.form, a.n, "ok")
  /\ ncalls' = ncalls + 1
  /\ UNCHANGED <<active, terminated, running, lastStarted, cache,
                 pipeline, commits, listeners, registry, timers, delivered>>

\* executeWrite as it would be if it returned the promise of its Deferred
\* without enqueuing the task.
executeWrite_NoEnqueue(op, key, wk, pre, a) ==
  /\ deferred' = deferred @@ (nextId :> NewDeferred(op))
  /\ nextId' = nextId + 1
  /\ lastCall' = Call(op, NoQuery, a.form, a.n, "ok")
  /\ ncalls' = ncalls + 1
  /\ UNCHANGED <<active, terminated, queue, running, lastStarted, cache,
                 pipeline, commits, listeners, registry, timers, delivered>>

\* executeWrite: one Deferred and one task handing the mutations, and that
\* Deferred, to the sync engine.  On a client that was torn down the queue
\* refuses the task by throwing: executeWrite throws with it, and the
\* Deferred it had created is returned to nobody.
executeWrite(op, key, wk, pre, a) ==
  IF terminated THEN Throws(op, NoQuery, a, "terminated")
  ELSE /\ deferred' = deferred @@ (nextId :> NewDeferred(op))
       /\ queue' = enqueueAndForget(queue,
                     Task(nextId, "write", key, "-", wk, pre, nextId, 0))
       /\ nextId' = nextId + 1
       /\ lastCall' = Call(op, NoQuery, a.form, a.n, "ok")
       /\ ncalls' = ncalls + 1
       /\ UNCHANGED <<active, terminated, running, lastStarted, cache,
                      pipeline, commits, listeners, registry, timers,
                      delivered>>

\* setDoc as it would be without its _verifyNotTerminated call, on a queue
\* that still takes the task of a client that was torn down.
setDoc_Unchecked ==
  /\ ncalls < MaxCalls
  /\ deferred' = deferred @@ (nextId :> NewDeferred("setDoc"))
  /\ queue' = Append(queue,
                Task(nextId, "write", TheDoc, "-", "set", "none", nextId, 0))
  /\ nextId' = nextId + 1
  /\ lastCall' = Call("setDoc", NoQuery, "-", 0, "ok")
  /\ ncalls' = ncalls + 1
  /\ UNCHANGED <<active, terminated, running, lastStarted, cache,
                 pipeline, commits, listeners, registry, timers, delivered>>

setDoc ==
  /\ ncalls < MaxCalls
  /\ IF terminated THEN Throws("setDoc", NoQuery, NoArgs, "terminated")
     ELSE executeWrite("setDoc", TheDoc, "set", "none", NoArgs)

\* updateDoc as it would be if it did not parse its arguments before the
\* write is enqueued.
updateDoc_NoParse(a) ==
  /\ ncalls < MaxCalls
  /\ IF terminated THEN Throws("updateDoc", NoQuery, a, "terminated")
     ELSE executeWrite("updateDoc", TheDoc, "update", "exists", a)

updateDoc(a) ==
  /\ ncalls < MaxCalls
  /\ IF terminated THEN Throws("updateDoc", NoQuery, a, "terminated")
     ELSE IF ~parseUpdateOk(a) THEN Throws("updateDoc", NoQuery, a, "invalid")
     ELSE executeWrite("updateDoc", TheDoc, "update", "exists", a)

\* deleteDoc as it would be without its _verifyNotTerminated call, on a
\* queue that still takes the task of a client that was torn down.
deleteDoc_Unchecked ==
  /\ ncalls < MaxCalls
  /\ deferred' = deferred @@ (nextId :> NewDeferred("deleteDoc"))
  /\ queue' = Append(queue,
                Task(nextId, "write", TheDoc, "-", "delete", "none", nextId,
                     0))
  /\ nextId' = nextId + 1
  /\ lastCall' = Call("deleteDoc", NoQuery, "-", 0, "ok")
  /\ ncalls' = ncalls + 1
  /\ UNCHANGED <<active, terminated, running, lastStarted, cache,
                 pipeline, commits, listeners, registry, timers, delivered>>

\* deleteDoc as it would be if it handed executeWrite a mutation that
\* leaves the document in place.
deleteDoc_KeepsDocument ==
  /\ ncalls < MaxCalls
  /\ IF terminated THEN Throws("deleteDoc", NoQuery, NoArgs, "terminated")
     ELSE executeWrite("deleteDoc", TheDoc, "update", "none", NoArgs)

deleteDoc ==
  /\ ncalls < MaxCalls
  /\ IF terminated THEN Throws("deleteDoc", NoQuery, NoArgs, "terminated")
     ELSE executeWrite("deleteDoc", TheDoc, "delete", "none", NoArgs)

\* addDoc as it would be if it wrote without a precondition.
addDoc_NoPrecondition ==
  /\ ncalls < MaxCalls
  /\ IF terminated THEN Throws("addDoc", NoQuery, NoArgs, "terminated")
     ELSE executeWrite("addDoc", AutoKey(nextId), "add", "none", NoArgs)

\* addDoc writes a document under a key generated for this call.
addDoc ==
  /\ ncalls < MaxCalls
  /\ IF terminated THEN Throws("addDoc", NoQuery, NoArgs, "terminated")
     ELSE executeWrite("addDoc", AutoKey(nextId), "add", "notExists", NoArgs)

\* What the caller of setDoc, updateDoc and deleteDoc holds: the promise of
\* the Deferred executeWrite created.
executeWriteResult(id) == deferred[id].st

\* addDoc as it would be if it returned the reference without waiting for
\* the write.
addDocResult_Eager(id) == [st |-> "resolved", ref |-> AutoKey(id)]

\* What the caller of addDoc holds: executeWrite(...).then(() => docRef).
addDocResult(id) ==
  [st  |-> executeWriteResult(id),
   ref |-> IF executeWriteResult(id) = "resolved" THEN AutoKey(id) ELSE NoKey]

\* onSnapshot: one AsyncObserver wrapping the user's observer, one
\* QueryListener holding internalOptions, and one task registering it with
\* the event manager.  opt is the options argument the user passed.
Listen(op, target, q, sync, o) ==
  IF terminated THEN Throws(op, q, NoArgs, "terminated")
  ELSE /\ listeners' = listeners @@
            (nextId :> [target |-> target, sync |-> sync, opt |-> o,
                        imc |-> internalOptions(o),
                        muted |-> FALSE, unsubscribed |-> FALSE,
                        snap |-> NoVal, sent |-> 0, seen |-> 0,
                        last |-> NoVal, got |-> NoSnapshot, errored |-> FALSE])
       /\ delivered' = delivered @@ (nextId :> 0)
       /\ queue' = enqueueAndForget(queue,
                     Task(nextId, "listen", target, "-", "-", "-", 0, nextId))
       /\ nextId' = nextId + 1
       /\ lastCall' = Call(op, q, "-", 0, "ok")
       /\ ncalls' = ncalls + 1
       /\ UNCHANGED <<active, terminated, running, lastStarted, deferred,
                      cache, pipeline, commits, registry, timers>>

onSnapshotDoc(o) ==
  /\ ncalls < MaxCalls
  /\ IF terminated THEN Throws("onSnapshot", NoQuery, NoArgs, "terminated")
     ELSE Listen("onSnapshot", TheDoc, NoQuery, FALSE, o)

onSnapshotQuery(q, o) ==
  /\ ncalls < MaxCalls
  /\ IF ~validateHasExplicitOrderByForLimitToLast(q)
     THEN Throws("onSnapshot", q, NoArgs, "invalid")
     ELSE IF terminated THEN Throws("onSnapshot", q, NoArgs, "terminated")
     ELSE Listen("onSnapshot", TheCollection, q, FALSE, o)

onSnapshotsInSync ==
  /\ ncalls < MaxCalls
  /\ IF terminated
     THEN Throws("onSnapshotsInSync", NoQuery, NoArgs, "terminated")
     ELSE Listen("onSnapshotsInSync", NoKey, NoQuery, TRUE, "-")

\* The returned function as it would be without wrappedObserver.mute().
unsubscribe_NoMute(l) ==
  /\ ncalls < MaxCalls
  /\ l \in DOMAIN listeners
  /\ listeners' = [listeners EXCEPT ![l].unsubscribed = TRUE]
  /\ queue' = enqueueAndForget(queue,
                Task(nextId, "unlisten", listeners[l].target, "-", "-", "-",
                     0, l))
  /\ nextId' = IF terminated THEN nextId ELSE nextId + 1
  /\ lastCall' = Call("unsubscribe", NoQuery, "-", 0,
                      IF terminated THEN "terminated" ELSE "ok")
  /\ ncalls' = ncalls + 1
  /\ UNCHANGED <<active, terminated, running, lastStarted, deferred,
                 cache, pipeline, commits, registry, timers, delivered>>

\* The returned function as it would be if it ran the callback already
\* scheduled for the listener before it muted the observer.
unsubscribe_Flush(l) ==
  /\ ncalls < MaxCalls
  /\ l \in DOMAIN listeners
  /\ LET idx == {i \in DOMAIN timers : timers[i].l = l}
     IN IF idx = {} \/ listeners[l].muted
        THEN /\ listeners' = [listeners EXCEPT ![l].muted = TRUE,
                                               ![l].unsubscribed = TRUE]
             /\ UNCHANGED <<timers, delivered>>
        ELSE LET i == CHOOSE j \in idx : \A k \in idx : j <= k
                 e == timers[i]
             IN /\ timers' = SubSeq(timers, 1, i - 1)
                                \o SubSeq(timers, i + 1, Len(timers))
                /\ delivered' = IF e.kind = "next"
                                THEN [delivered EXCEPT ![l] = @ + 1]
                                ELSE delivered
                /\ listeners' =
                     [listeners EXCEPT
                        ![l].muted = TRUE,
                        ![l].unsubscribed = TRUE,
                        ![l].seen = e.n,
                        ![l].last = IF e.kind = "next" THEN e.snap ELSE @,
                        ![l].errored = (e.kind = "error") \/ @]
  /\ queue' = enqueueAndForget(queue,
                Task(nextId, "unlisten", listeners[l].target, "-", "-", "-",
                     0, l))
  /\ nextId' = IF terminated THEN nextId ELSE nextId + 1
  /\ lastCall' = Call("unsubscribe", NoQuery, "-", 0,
                      IF terminated THEN "terminated" ELSE "ok")
  /\ ncalls' = ncalls + 1
  /\ UNCHANGED <<active, terminated, running, lastStarted, deferred,
                 cache, pipeline, commits, registry>>

\* The returned function as it would be if its task went to the front of
\* the queue instead of its end.
unsubscribe_JumpsQueue(l) ==
  /\ ncalls < MaxCalls
  /\ l \in DOMAIN listeners
  /\ listeners' = [listeners EXCEPT ![l].muted = TRUE,
                                    ![l].unsubscribed = TRUE]
  /\ queue' = IF terminated THEN queue
              ELSE <<Task(nextId, "unlisten", listeners[l].target, "-", "-",
                          "-", 0, l)>> \o queue
  /\ nextId' = IF terminated THEN nextId ELSE nextId + 1
  /\ lastCall' = Call("unsubscribe", NoQuery, "-", 0,
                      IF terminated THEN "terminated" ELSE "ok")
  /\ ncalls' = ncalls + 1
  /\ UNCHANGED <<active, terminated, running, lastStarted, deferred,
                 cache, pipeline, commits, registry, timers, delivered>>

\* The function onSnapshot and onSnapshotsInSync return: mute the observer,
\* then enqueue the task that takes the listener out of the event manager.
unsubscribe(l) ==
  /\ ncalls < MaxCalls
  /\ l \in DOMAIN listeners
  /\ listeners' = [listeners EXCEPT ![l].muted = TRUE,
                                    ![l].unsubscribed = TRUE]
  /\ queue' = enqueueAndForget(queue,
                Task(nextId, "unlisten", listeners[l].target, "-", "-", "-",
                     0, l))
  /\ nextId' = IF terminated THEN nextId ELSE nextId + 1
  /\ lastCall' = Call("unsubscribe", NoQuery, "-", 0,
                      IF terminated THEN "terminated" ELSE "ok")
  /\ ncalls' = ncalls + 1
  /\ UNCHANGED <<active, terminated, running, lastStarted, deferred,
                 cache, pipeline, commits, registry, timers, delivered>>

\* FirebaseFirestore._terminate: the client is torn down.
terminate ==
  /\ ncalls < MaxCalls
  /\ ~terminated
  /\ terminated' = TRUE
  /\ lastCall' = Call("terminate", NoQuery, "-", 0, "ok")
  /\ ncalls' = ncalls + 1
  /\ UNCHANGED <<active, nextId, queue, running, lastStarted, deferred,
                 cache, pipeline, commits, listeners, registry, timers,
                 delivered>>

\* ------------------------------------------------------------ the lane
\* The queue starts its oldest task once the task before it has finished.
StartTask ==
  /\ queue # <<>>
  /\ running = {}
  /\ active = 0
  /\ running' = {Head(queue)}
  /\ lastStarted' = Head(queue).id
  /\ queue' = Tail(queue)
  /\ lastCall' = NoCall
  /\ UNCHANGED <<active, terminated, nextId, ncalls, deferred,
                 cache, pipeline, commits, listeners, registry, timers,
                 delivered>>

\* readDocumentFromCache, readDocumentViaSnapshotListener,
\* executeQueryFromCache, executeQueryViaSnapshotListener: the task resolves
\* its Deferred with the view of its target.
ReadSucceeds(t) ==
  /\ active = 0
  /\ t \in running /\ t.kind = "read"
  /\ deferred' = [deferred EXCEPT
       ![t.def] = Settle(@, "resolved", ViewOf(cache, t.key, t.src), t.id)]
  /\ running' = running \ {t}
  /\ lastCall' = NoCall
  /\ UNCHANGED <<active, terminated, nextId, ncalls, queue,
                 lastStarted, cache, pipeline, commits, listeners, registry,
                 timers, delivered>>

\* A read from the server fails when the backend cannot be reached.
ReadFails(t) ==
  /\ active = 0
  /\ t \in running /\ t.kind = "read" /\ t.src = "server"
  /\ deferred' = [deferred EXCEPT
       ![t.def] = Settle(@, "rejected", NoVal, t.id)]
  /\ running' = running \ {t}
  /\ lastCall' = NoCall
  /\ UNCHANGED <<active, terminated, nextId, ncalls, queue,
                 lastStarted, cache, pipeline, commits, listeners, registry,
                 timers, delivered>>

\* syncEngineWrite: the mutations are applied to the local view, the
\* listeners they affect are notified, and the batch is forwarded to the
\* commit channel together with the caller's Deferred.
WriteApplies(t) ==
  /\ active = 0
  /\ t \in running /\ t.kind = "write"
  /\ cache' = Append(cache, [id |-> t.id, key |-> t.key, wk |-> t.wk,
                             pre |-> t.pre, st |-> "pending"])
  /\ pipeline' = Append(pipeline, [id |-> t.id, def |-> t.def])
  /\ timers' = RaiseBatch(timers, Affected(t.key), cache')
  /\ listeners' = AfterBatch(Affected(t.key), cache')
  /\ running' = running \ {t}
  /\ lastCall' = NoCall
  /\ UNCHANGED <<active, terminated, nextId, ncalls, queue,
                 lastStarted, deferred, commits, registry, delivered>>

\* syncEngineWrite when the local store cannot persist the batch: the
\* caller's Deferred is rejected and nothing else changes.
WriteFailsLocally(t) ==
  /\ active = 0
  /\ t \in running /\ t.kind = "write"
  /\ deferred' = [deferred EXCEPT
       ![t.def] = Settle(@, "rejected", NoVal, t.id)]
  /\ running' = running \ {t}
  /\ lastCall' = NoCall
  /\ UNCHANGED <<active, terminated, nextId, ncalls, queue,
                 lastStarted, cache, pipeline, commits, listeners, registry,
                 timers, delivered>>

\* The commit channel acknowledges the oldest forwarded write: the write is
\* no longer pending in the local view, and the listeners of its key are
\* sent the view, whose metadata may have changed.
CommitAcked ==
  /\ pipeline # <<>>
  /\ running = {} /\ active = 0
  /\ LET w == Head(pipeline).id
         i == CHOOSE j \in DOMAIN cache : cache[j].id = w
     IN /\ cache' = Mark(cache, w, "acked")
        /\ timers' = RaiseBatch(timers, Affected(cache[i].key), cache')
        /\ listeners' = AfterBatch(Affected(cache[i].key), cache')
  /\ commits' = commits @@ (Head(pipeline).id :> "acked")
  /\ deferred' = [deferred EXCEPT
       ![Head(pipeline).def] = Settle(@, "resolved", NoVal, Head(pipeline).id)]
  /\ pipeline' = Tail(pipeline)
  /\ lastCall' = NoCall
  /\ UNCHANGED <<active, terminated, nextId, ncalls, queue,
                 running, lastStarted, registry, delivered>>

\* The backend rejects the oldest forwarded write.  The sync engine of the
\* model rolls the optimistic local application back (the policy is the
\* sync engine's to choose), and the listeners of the key are sent the view
\* without the write.
CommitRejected ==
  /\ pipeline # <<>>
  /\ running = {} /\ active = 0
  /\ LET w == Head(pipeline).id
         i == CHOOSE j \in DOMAIN cache : cache[j].id = w
     IN /\ cache' = Remove(cache, w)
        /\ timers' = RaiseBatch(timers, Affected(cache[i].key), cache')
        /\ listeners' = AfterBatch(Affected(cache[i].key), cache')
  /\ commits' = commits @@ (Head(pipeline).id :> "rejected")
  /\ deferred' = [deferred EXCEPT
       ![Head(pipeline).def] = Settle(@, "rejected", NoVal, Head(pipeline).id)]
  /\ pipeline' = Tail(pipeline)
  /\ lastCall' = NoCall
  /\ UNCHANGED <<active, terminated, nextId, ncalls, queue,
                 running, lastStarted, registry, delivered>>

\* eventManagerListen / addSnapshotsInSyncListener: the listener joins the
\* registry; a query listener is sent the current view of its target.
ListenRuns(t) ==
  /\ active = 0
  /\ t \in running /\ t.kind = "listen"
  /\ registry' = registry \cup {t.lst}
  /\ IF listeners[t.lst].sync
     THEN UNCHANGED <<timers, listeners>>
     ELSE /\ timers' = RaiseBatch(timers, {t.lst}, cache)
          /\ listeners' = AfterBatch({t.lst}, cache)
  /\ running' = running \ {t}
  /\ lastCall' = NoCall
  /\ UNCHANGED <<active, terminated, nextId, ncalls, queue,
                 lastStarted, deferred, cache, pipeline, commits,
                 delivered>>

\* eventManagerUnlisten / removeSnapshotsInSyncListener.
UnlistenRuns(t) ==
  /\ active = 0
  /\ t \in running /\ t.kind = "unlisten"
  /\ registry' = registry \ {t.lst}
  /\ running' = running \ {t}
  /\ lastCall' = NoCall
  /\ UNCHANGED <<active, terminated, nextId, ncalls, queue,
                 lastStarted, deferred, cache, pipeline, commits, listeners,
                 timers, delivered>>

\* ListenFails as it would be if the event manager kept the listeners it
\* sent the error to.
ListenFails_KeepsRegistered(target) ==
  /\ running = {} /\ active = 0
  /\ LET ls == {l \in registry : listeners[l].target = target}
     IN /\ ls # {}
        /\ timers' = ErrorAll(timers, Ascending(ls))
        /\ listeners' = [l \in DOMAIN listeners |->
                           IF l \in ls
                           THEN [listeners[l] EXCEPT !.sent = @ + 1]
                           ELSE listeners[l]]
  /\ lastCall' = NoCall
  /\ UNCHANGED <<active, terminated, nextId, ncalls, queue, running,
                 lastStarted, deferred, cache, pipeline, commits, delivered,
                 registry>>

\* The watch stream of `target` fails: the event manager sends the error to
\* every listener of the target and drops them from the registry.
ListenFails(target) ==
  /\ running = {} /\ active = 0
  /\ LET ls == {l \in registry : listeners[l].target = target}
     IN /\ ls # {}
        /\ timers' = ErrorAll(timers, Ascending(ls))
        /\ listeners' = [l \in DOMAIN listeners |->
                           IF l \in ls
                           THEN [listeners[l] EXCEPT !.sent = @ + 1]
                           ELSE listeners[l]]
        /\ registry' = registry \ ls
  /\ lastCall' = NoCall
  /\ UNCHANGED <<active, terminated, nextId, ncalls, queue, running,
                 lastStarted, deferred, cache, pipeline, commits, delivered>>

\* The scheduled callback `e` invokes the user's callback: next with the
\* converted snapshot, or error.
Invoke(e) ==
  /\ delivered' = IF e.kind = "next"
                  THEN [delivered EXCEPT ![e.l] = @ + 1] ELSE delivered
  /\ listeners' =
       IF e.kind = "next"
       THEN [listeners EXCEPT
               ![e.l].last = e.snap,
               ![e.l].got = observerNext(listeners[e.l].target, e.snap),
               ![e.l].seen = e.n]
       ELSE [listeners EXCEPT ![e.l].errored = TRUE, ![e.l].seen = e.n]

\* A scheduled callback runs to its end: the user's callback is invoked
\* unless the observer was muted in the meantime, and it calls nothing.
Deliver ==
  /\ timers # <<>>
  /\ active = 0
  /\ IF listeners[Head(timers).l].muted
     THEN UNCHANGED <<delivered, listeners>>
     ELSE Invoke(Head(timers))
  /\ timers' = Tail(timers)
  /\ lastCall' = NoCall
  /\ UNCHANGED <<active, terminated, nextId, ncalls, queue,
                 running, lastStarted, deferred, cache, pipeline, commits,
                 registry>>

\* A scheduled callback starts: the user's callback is invoked unless the
\* observer was muted, and until it returns the user's code may call the
\* public operations.
CallbackStarts ==
  /\ timers # <<>>
  /\ active = 0
  /\ IF listeners[Head(timers).l].muted
     THEN UNCHANGED <<delivered, listeners, active>>
     ELSE /\ Invoke(Head(timers))
          /\ active' = Head(timers).l
  /\ timers' = Tail(timers)
  /\ lastCall' = NoCall
  /\ UNCHANGED <<terminated, nextId, ncalls, queue,
                 running, lastStarted, deferred, cache, pipeline, commits,
                 registry>>

\* The user's callback returns.
CallbackReturns ==
  /\ active # 0
  /\ active' = 0
  /\ lastCall' = NoCall
  /\ UNCHANGED <<terminated, nextId, ncalls, queue, running, lastStarted,
                 deferred, cache, pipeline, commits, listeners, registry,
                 timers, delivered>>

\* ------------------------------------------------------------ specification
Init ==
  /\ terminated = FALSE
  /\ nextId = 1
  /\ ncalls = 0
  /\ lastCall = NoCall
  /\ queue = <<>>
  /\ running = {}
  /\ lastStarted = 0
  /\ deferred = <<>>
  /\ cache = <<>>
  /\ pipeline = <<>>
  /\ commits = <<>>
  /\ listeners = <<>>
  /\ registry = {}
  /\ timers = <<>>
  /\ delivered = <<>>
  /\ active = 0

Next ==
  \/ getDoc
  \/ getDocFromCache
  \/ getDocFromServer
  \/ \E q \in Queries : getDocs(q)
  \/ \E q \in Queries : getDocsFromCache(q)
  \/ \E q \in Queries : getDocsFromServer(q)
  \/ setDoc
  \/ \E a \in UpdateArgs : updateDoc(a)
  \/ deleteDoc
  \/ addDoc
  \/ onSnapshotDoc("none")
  \/ \E q \in Queries : onSnapshotQuery(q, "none")
  \/ onSnapshotsInSync
  \/ \E l \in DOMAIN listeners : unsubscribe(l)
  \/ terminate
  \/ StartTask
  \/ \E t \in running : ReadSucceeds(t)
  \/ \E t \in running : ReadFails(t)
  \/ \E t \in running : WriteApplies(t)
  \/ \E t \in running : WriteFailsLocally(t)
  \/ CommitAcked
  \/ CommitRejected
  \/ \E t \in running : ListenRuns(t)
  \/ \E t \in running : UnlistenRuns(t)
  \/ Deliver

Spec == Init /\ [][Next]_vars

\* The reads and the writes alone, with the teardown of the client: the
\* operations that create a Deferred, and the steps that settle it.
ReadWriteNext ==
  \/ getDoc
  \/ getDocFromCache
  \/ getDocFromServer
  \/ \E q \in Queries : getDocs(q)
  \/ \E q \in Queries : getDocsFromCache(q)
  \/ \E q \in Queries : getDocsFromServer(q)
  \/ setDoc
  \/ \E a \in UpdateArgs : updateDoc(a)
  \/ deleteDoc
  \/ addDoc
  \/ terminate
  \/ StartTask
  \/ \E t \in running : ReadSucceeds(t)
  \/ \E t \in running : ReadFails(t)
  \/ \E t \in running : WriteApplies(t)
  \/ \E t \in running : WriteFailsLocally(t)
  \/ CommitAcked
  \/ CommitRejected

ReadWriteSpec == Init /\ [][ReadWriteNext]_vars

\* The operations whose result is made by convertToDocSnapshot (the reads
\* of a document and the document listener), with the writes that change
\* what they see.
SnapshotNext ==
  \/ getDoc
  \/ getDocFromServer
  \/ onSnapshotDoc("none")
  \/ setDoc
  \/ deleteDoc
  \/ addDoc
  \/ \E l \in DOMAIN listeners : unsubscribe(l)
  \/ StartTask
  \/ \E t \in running : ReadSucceeds(t)
  \/ \E t \in running : ReadFails(t)
  \/ \E t \in running : WriteApplies(t)
  \/ CommitAcked
  \/ CommitRejected
  \/ \E t \in running : ListenRuns(t)
  \/ \E t \in running : UnlistenRuns(t)
  \/ Deliver

SnapshotSpec == Init /\ [][SnapshotNext]_vars

\* A client on which setDoc was called once: its task waits on the queue
\* and its Deferred is pending.
WriteSubmitted ==
  /\ terminated = FALSE
  /\ nextId = 2
  /\ ncalls = 0
  /\ lastCall = NoCall
  /\ queue = <<Task(1, "write", TheDoc, "-", "set", "none", 1, 0)>>
  /\ running = {}
  /\ lastStarted = 0
  /\ deferred = (1 :> NewDeferred("setDoc"))
  /\ cache = <<>>
  /\ pipeline = <<>>
  /\ commits = <<>>
  /\ listeners = <<>>
  /\ registry = {}
  /\ timers = <<>>
  /\ delivered = <<>>
  /\ active = 0

\* The writes to a document next to the reads of it and the listeners on it
\* and on its collection, with the ways a write can fail.
ReadYourWritesNext ==
  \/ getDoc
  \/ getDocFromCache
  \/ setDoc
  \/ deleteDoc
  \/ onSnapshotDoc("none")
  \/ onSnapshotQuery(NoQuery, "none")
  \/ StartTask
  \/ \E t \in running : ReadSucceeds(t)
  \/ \E t \in running : WriteApplies(t)
  \/ \E t \in running : WriteFailsLocally(t)
  \/ CommitAcked
  \/ CommitRejected
  \/ \E t \in running : ListenRuns(t)
  \/ Deliver

ReadYourWritesSpec == WriteSubmitted /\ [][ReadYourWritesNext]_vars

\* The steps that finish the running task, and the lane's fairness: the
\* queue keeps starting tasks, a started task runs to its end, the commit
\* channel answers, and scheduled callbacks run.
FinishTask ==
  \E t \in running :
    \/ ReadSucceeds(t) \/ ReadFails(t) \/ WriteApplies(t)
    \/ WriteFailsLocally(t) \/ ListenRuns(t) \/ UnlistenRuns(t)

\* The lane with the public operations that give every kind of task (a read
\* that can fail, writes, a listen and its unlisten) and the teardown of
\* the client, under that fairness.
LaneNext ==
  \/ getDocFromServer
  \/ setDoc
  \/ addDoc
  \/ onSnapshotDoc("none")
  \/ terminate
  \/ \E l \in DOMAIN listeners : unsubscribe(l)
  \/ StartTask
  \/ \E t \in running : ReadSucceeds(t)
  \/ \E t \in running : ReadFails(t)
  \/ \E t \in running : WriteApplies(t)
  \/ \E t \in running : WriteFailsLocally(t)
  \/ CommitAcked
  \/ CommitRejected
  \/ \E t \in running : ListenRuns(t)
  \/ \E t \in running : UnlistenRuns(t)
  \/ Deliver

FairSpec ==
  /\ Init /\ [][LaneNext]_vars
  /\ WF_vars(StartTask)
  /\ WF_vars(FinishTask)
  /\ WF_vars(CommitAcked \/ CommitRejected)
  /\ WF_vars(Deliver)

\* The four writes next to a read that can fail and a snapshots-in-sync
\* listener with its unsubscribe function, under the fairness of the lane.
WriteNext ==
  \/ setDoc
  \/ updateDoc([form |-> "object", n |-> 1])
  \/ deleteDoc
  \/ addDoc
  \/ getDocFromServer
  \/ onSnapshotsInSync
  \/ \E l \in DOMAIN listeners : unsubscribe(l)
  \/ StartTask
  \/ \E t \in running : ReadSucceeds(t)
  \/ \E t \in running : ReadFails(t)
  \/ \E t \in running : WriteApplies(t)
  \/ \E t \in running : WriteFailsLocally(t)
  \/ CommitAcked
  \/ CommitRejected
  \/ \E t \in running : ListenRuns(t)
  \/ \E t \in running : UnlistenRuns(t)

WriteFairSpec ==
  /\ Init /\ [][WriteNext]_vars
  /\ WF_vars(StartTask)
  /\ WF_vars(FinishTask)
  /\ WF_vars(CommitAcked \/ CommitRejected)

\* The life of the query listeners: onSnapshot with every form of its
\* options, the writes that change what the listeners see, and the failure
\* of a watch stream.
ListenerNext ==
  \/ \E o \in Options : onSnapshotDoc(o)
  \/ onSnapshotQuery(NoQuery, "none")
  \/ setDoc
  \/ \E l \in DOMAIN listeners : unsubscribe(l)
  \/ StartTask
  \/ \E t \in running : WriteApplies(t)
  \/ CommitAcked
  \/ \E t \in running : ListenRuns(t)
  \/ \E t \in running : UnlistenRuns(t)
  \/ \E k \in {TheDoc, TheCollection} : ListenFails(k)
  \/ Deliver

ListenerSpec == Init /\ [][ListenerNext]_vars

\* The snapshots-in-sync listeners next to the query listeners, on a client
\* on which onSnapshotsInSync was called and its registration has run.
SyncRegistered ==
  /\ terminated = FALSE
  /\ nextId = 2
  /\ ncalls = 0
  /\ lastCall = NoCall
  /\ queue = <<>>
  /\ running = {}
  /\ lastStarted = 1
  /\ deferred = <<>>
  /\ cache = <<>>
  /\ pipeline = <<>>
  /\ commits = <<>>
  /\ listeners = (1 :> [target |-> NoKey, sync |-> TRUE,
                        opt |-> "-", imc |-> "-",
                        muted |-> FALSE, unsubscribed |-> FALSE,
                        snap |-> NoVal, sent |-> 0, seen |-> 0,
                        last |-> NoVal, got |-> NoSnapshot,
                        errored |-> FALSE])
  /\ registry = {1}
  /\ timers = <<>>
  /\ delivered = (1 :> 0)
  /\ active = 0

SyncNext ==
  \/ onSnapshotDoc("none")
  \/ onSnapshotQuery(NoQuery, "none")
  \/ onSnapshotsInSync
  \/ setDoc
  \/ \E l \in DOMAIN listeners : unsubscribe(l)
  \/ StartTask
  \/ \E t \in running : WriteApplies(t)
  \/ CommitAcked
  \/ CommitRejected
  \/ \E t \in running : ListenRuns(t)
  \/ \E t \in running : UnlistenRuns(t)
  \/ Deliver

SyncSpec == SyncRegistered /\ [][SyncNext]_vars

\* User callbacks that call the public operations before they return: a
\* document listener, the writes it sees, and its unsubscribe function.
CallbackNext ==
  \/ onSnapshotDoc("true")
  \/ setDoc
  \/ \E l \in DOMAIN listeners : unsubscribe(l)
  \/ StartTask
  \/ \E t \in running : WriteApplies(t)
  \/ CommitAcked
  \/ CommitRejected
  \/ \E t \in running : ListenRuns(t)
  \/ \E t \in running : UnlistenRuns(t)
  \/ CallbackStarts
  \/ CallbackReturns

CallbackSpec == Init /\ [][CallbackNext]_vars

\* ------------------------------------------------------------ vocabulary
WriteOps == {"setDoc", "updateDoc", "deleteDoc", "addDoc"}
DocReadOps == {"getDoc", "getDocFromCache", "getDocFromServer"}
QueryOps == {"getDocs", "getDocsFromCache", "getDocsFromServer"}

IsWrite(id) == id \in DOMAIN deferred /\ deferred[id].op \in WriteOps
IsDocRead(id) == id \in DOMAIN deferred /\ deferred[id].op \in DocReadOps

WriteKey(w) == IF deferred[w].op = "addDoc" THEN AutoKey(w) ELSE TheDoc

\* The writes submitted before the operation `id` on its target.
WritesBefore(id, target) ==
  {w \in DOMAIN deferred :
     /\ w < id
     /\ IsWrite(w)
     /\ (target = TheCollection \/ WriteKey(w) = target)}

Failed(w) == deferred[w].st = "rejected"

Scheduled(l) == \E i \in DOMAIN timers : timers[i].l = l

\* ------------------------------------------------------------ claims

\* C1: the tasks the public operations enqueue start in exactly their
\* submission order (the queue holds the tasks submitted after the one
\* started last, oldest first, with none missing), and at most one task is
\* executing in every reachable state.
C1_SubmissionOrder ==
  /\ Cardinality(running) <= 1
  /\ \A t \in running : t.id = lastStarted
  /\ \A i \in DOMAIN queue : queue[i].id = lastStarted + i
  /\ lastStarted + Len(queue) = nextId - 1

C1_Witness ==
  /\ lastStarted = 2
  /\ running # {}
  /\ queue # <<>>

\* C2: once the unsubscribe function of a listener has been called, no step
\* invokes a callback of that listener again, whatever was scheduled before.
C2_MuteThenDrain ==
  [][\A l \in DOMAIN listeners :
       listeners[l].unsubscribed => delivered'[l] = delivered[l]]_vars

\* A delivery was scheduled, then unsubscribe was called, and the
\* de-registration task has not run yet.
C2_Witness ==
  \E l \in DOMAIN listeners :
    /\ listeners[l].unsubscribed
    /\ Scheduled(l)
    /\ l \in registry
    /\ \E i \in DOMAIN queue : queue[i].kind = "unlisten" /\ queue[i].lst = l

\* C3 as stated: every resolved document read reflects every write
\* submitted before it.
C3_Original ==
  \A r \in DOMAIN deferred :
    (IsDocRead(r) /\ deferred[r].st = "resolved")
      => WritesBefore(r, TheDoc) \subseteq deferred[r].val.writes

\* C3, amended: the local view holds the writes in submission order; a
\* document read or a listener submitted after Wi reflects every one of
\* W1..Wi that has not failed; and what a read reflects of the writes before
\* it misses no earlier write that has not failed.
C3_ReadYourWrites ==
  /\ \A i, j \in DOMAIN cache : i < j => cache[i].id < cache[j].id
  /\ \A r \in DOMAIN deferred :
       (IsDocRead(r) /\ deferred[r].st = "resolved") =>
         /\ \A w \in WritesBefore(r, TheDoc) :
              ~Failed(w) => w \in deferred[r].val.writes
         /\ \A w \in deferred[r].val.writes :
              \A v \in WritesBefore(w, TheDoc) :
                ~Failed(v) => v \in deferred[r].val.writes
  /\ \A l \in DOMAIN listeners :
       (~listeners[l].sync /\ delivered[l] > 0) =>
         \A w \in WritesBefore(l, listeners[l].target) :
           ~Failed(w) => w \in listeners[l].last.writes

\* Two writes were submitted, then a read and a listener: the read resolved
\* with both writes in its view, and the callback of the listener was
\* invoked with a snapshot that holds both.
C3_Witness ==
  \E r \in DOMAIN deferred, l \in DOMAIN listeners :
    /\ IsDocRead(r)
    /\ deferred[r].st = "resolved"
    /\ Cardinality(WritesBefore(r, TheDoc)) = 2
    /\ deferred[r].val.writes = WritesBefore(r, TheDoc)
    /\ ~listeners[l].sync
    /\ delivered[l] > 0
    /\ WritesBefore(l, listeners[l].target) = WritesBefore(r, TheDoc)
    /\ listeners[l].last.writes = WritesBefore(r, TheDoc)

\* C4: the promise of a write is resolved only once the commit channel has
\* acknowledged that write, never while it is only applied locally, and it
\* is rejected once the commit has failed.
C4_ResolvesOnAck ==
  \A w \in DOMAIN deferred :
    IsWrite(w) =>
      /\ executeWriteResult(w) = "resolved"
           => (w \in DOMAIN commits /\ commits[w] = "acked")
      /\ (w \in DOMAIN commits /\ commits[w] = "rejected")
           => executeWriteResult(w) = "rejected"

\* One write acknowledged and resolved, another applied locally, awaiting
\* its commit, with its promise pending.
C4_Witness ==
  /\ \E w \in DOMAIN deferred :
       IsWrite(w) /\ executeWriteResult(w) = "resolved"
  /\ \E w \in DOMAIN deferred :
       /\ IsWrite(w)
       /\ executeWriteResult(w) = "pending"
       /\ \E i \in DOMAIN pipeline : pipeline[i].id = w
       /\ \E i \in DOMAIN cache : cache[i].id = w

\* C5: the caller of addDoc holds the new reference only once the write was
\* acknowledged; while the write is pending, and after it failed, the caller
\* holds no reference, and a failed write rejects the promise.
C5_AddDocReference ==
  \A a \in DOMAIN deferred :
    deferred[a].op = "addDoc" =>
      /\ addDocResult(a).ref # NoKey
           => /\ addDocResult(a).ref = AutoKey(a)
              /\ a \in DOMAIN commits /\ commits[a] = "acked"
      /\ (a \in DOMAIN commits /\ commits[a] = "rejected")
           => (addDocResult(a).st = "rejected" /\ addDocResult(a).ref = NoKey)
      /\ Failed(a) => addDocResult(a).st = "rejected"

\* One addDoc delivered its reference, another was rejected by the backend.
C5_Witness ==
  /\ \E a \in DOMAIN deferred :
       deferred[a].op = "addDoc" /\ addDocResult(a).ref = AutoKey(a)
  /\ \E a \in DOMAIN commits :
       deferred[a].op = "addDoc" /\ commits[a] = "rejected"

C7_LimitToLastRejected ==
  (/\ lastCall.op \in QueryOps \cup {"onSnapshot"}
   /\ ~validateHasExplicitOrderByForLimitToLast(lastCall.q))
    => lastCall.out # "ok"

\* C8: an updateDoc call whose arguments do not parse throws, and leaves the
\* queue, the local view, the listeners and the Deferreds as they were.
C8_UpdateValidatedFirst ==
  [][(/\ ncalls' # ncalls
      /\ lastCall'.op = "updateDoc"
      /\ ~parseUpdateOk([form |-> lastCall'.form, n |-> lastCall'.n]))
       => /\ lastCall'.out # "ok"
          /\ UNCHANGED <<queue, nextId, cache, pipeline, deferred, listeners,
                         registry, timers>>]_vars

\* updateDoc was called with an odd number of trailing varargs while a task
\* was waiting on the queue.
C8_Witness ==
  /\ lastCall.op = "updateDoc"
  /\ lastCall.form = "varargs"
  /\ lastCall.n % 2 = 1
  /\ lastCall.out = "invalid"
  /\ queue # <<>>

\* C9: resolve or reject is called on a Deferred at most once, a Deferred is
\* settled exactly when it was called, and the caller is the task that was
\* enqueued together with the Deferred.
C9_SettledOnce ==
  \A d \in DOMAIN deferred :
    /\ deferred[d].n <= 1
    /\ (deferred[d].st = "pending") <=> (deferred[d].n = 0)
    /\ deferred[d].n = 1 => deferred[d].by = d

\* A resolved and a rejected Deferred of a read and of a write.
C9_Witness ==
  /\ \E d \in DOMAIN deferred : IsWrite(d) /\ deferred[d].st = "resolved"
  /\ \E d \in DOMAIN deferred : IsDocRead(d) /\ deferred[d].st = "rejected"

\* The task with number i has started and run to its end.
Finished(i) == lastStarted >= i /\ \A t \in running : t.id # i

\* C10: a failure reaches only the Deferred of the caller whose task failed
\* (the step that rejects a Deferred changes no other Deferred and invokes
\* no listener), and every task the queue accepted runs to its end, whatever
\* failed before it.
C10_FailureIsolated ==
  /\ [][\A d \in DOMAIN deferred :
          (deferred[d].st = "pending" /\ deferred'[d].st = "rejected") =>
            /\ deferred'[d].by = d
            /\ \A e \in DOMAIN deferred : e # d => deferred'[e] = deferred[e]
            /\ delivered' = delivered]_vars
  /\ \A i \in 1..MaxCalls : (i < nextId) ~> Finished(i)

\* A task failed (its Deferred is rejected, and not by the commit channel)
\* and a task submitted after it resolved its own Deferred.
C10_Witness ==
  \E d, e \in DOMAIN deferred :
    /\ d < e
    /\ deferred[d].st = "rejected"
    /\ d \notin DOMAIN commits
    /\ deferred[e].st = "resolved"

\* C11 as stated: the unsubscribe function is idempotent: a call made on a
\* listener whose unsubscribe function was called before (it leaves the
\* listener as it was: muted, unsubscribed) enqueues no task and changes
\* neither the queue nor the registry.
C11_UnsubscribeIdempotent ==
  [][(/\ ncalls' # ncalls
      /\ lastCall'.op = "unsubscribe"
      /\ listeners' = listeners)
       => /\ queue' = queue
          /\ nextId' = nextId
          /\ registry' = registry]_vars

\* A listener's snapshot whose documents are those of the snapshot before
\* it: only its metadata can have changed.
MetadataOnly(v, w) == ~ContentDiffers(v, w) /\ MetadataDiffers(v, w)

\* C12: a listener registered by onSnapshot with no options, with an
\* options object without includeMetadataChanges, or with the field false,
\* is never delivered a snapshot that has the documents of the one delivered
\* before it; a registered, unmuted listener registered with the field true
\* is scheduled the snapshot when the view of its target changes in its
\* metadata only.
C12_MetadataFilter ==
  [][\A l \in DOMAIN listeners :
       /\ (/\ listeners[l].opt \in Options \ {"true"}
           /\ delivered[l] > 0
           /\ delivered'[l] # delivered[l])
            => ContentDiffers(listeners[l].last, listeners'[l].last)
       /\ (/\ listeners[l].opt = "true"
           /\ l \in registry
           /\ ~listeners[l].muted
           /\ listeners[l].sent > 0
           /\ MetadataOnly(listeners[l].snap,
                           ViewOf(cache', listeners[l].target, "default")))
            => \E i \in DOMAIN timers' :
                 /\ timers'[i].l = l
                 /\ timers'[i].n = listeners[l].sent + 1
                 /\ timers'[i].snap =
                      ViewOf(cache', listeners[l].target, "default")]_vars

\* A write was applied and acknowledged: the listener registered with an
\* options object without the field was delivered the snapshot with the
\* pending write and nothing after it; the listener registered with
\* includeMetadataChanges true was also delivered the acknowledged one.
C12_Witness ==
  \E l, m \in DOMAIN listeners :
    /\ listeners[l].opt = "empty"
    /\ listeners[m].opt = "true"
    /\ timers = <<>>
    /\ listeners[l].last.pending
    /\ ~listeners[m].last.pending
    /\ listeners[m].last.writes = listeners[l].last.writes
    /\ listeners[l].last.writes # {}
    /\ delivered[m] = delivered[l] + 1

\* C13: once the error callback of a listener has fired, no step invokes
\* its next callback again, and the listener is out of the registry, whether
\* or not its unsubscribe function was called.
C13_ErrorTerminal ==
  /\ [][\A l \in DOMAIN listeners :
          listeners[l].errored => delivered'[l] = delivered[l]]_vars
  /\ [](\A l \in DOMAIN listeners :
          listeners[l].errored => l \notin registry)

\* The error callback of a listener fired after a snapshot was delivered to
\* it, its unsubscribe function was never called, and a write applied to its
\* document since was not delivered to it.
C13_Witness ==
  \E l \in DOMAIN listeners :
    /\ listeners[l].errored
    /\ ~listeners[l].unsubscribed
    /\ delivered[l] > 0
    /\ listeners[l].target = TheDoc
    /\ timers = <<>>
    /\ \E i \in DOMAIN cache :
         cache[i].key = TheDoc /\ cache[i].id \notin listeners[l].last.writes

\* C14: while a callback of a listener executes, no step (no public call
\* the callback makes, among them) invokes a callback of that listener; and
\* the callbacks of a listener are invoked in the order in which the event
\* manager sent it the events.
C14_OrderedNotReentrant ==
  /\ [][\A l \in DOMAIN listeners :
          active = l =>
            /\ delivered'[l] = delivered[l]
            /\ listeners'[l].seen = listeners[l].seen
            /\ listeners'[l].errored = listeners[l].errored]_vars
  /\ [][\A l \in DOMAIN listeners :
          listeners'[l].seen # listeners[l].seen =>
            /\ listeners'[l].seen > listeners[l].seen
            /\ active = 0]_vars
  /\ [](\A i, j \in DOMAIN timers :
          (i < j /\ timers[i].l = timers[j].l) =>
            /\ timers[i].n < timers[j].n
            /\ timers[i].n > listeners[timers[i].l].seen)

\* The callback of a listener is executing, it has called setDoc, and the
\* next snapshot for the same listener is already scheduled.
C14_Witness ==
  \E l \in DOMAIN listeners :
    /\ active = l
    /\ listeners[l].seen > 0
    /\ Scheduled(l)
    /\ lastCall.op = "setDoc"

\* C15: once the client is terminated every public call fails with the
\* terminated error and leaves the queue as it is; the tasks accepted
\* before are still started in their order, each runs to its end, and the
\* Deferred of each read and write among them is settled.
C15_DrainsAfterTermination ==
  /\ [][(terminated /\ ncalls' # ncalls) =>
          /\ lastCall'.out = "terminated"
          /\ queue' = queue
          /\ DOMAIN deferred' = DOMAIN deferred]_vars
  /\ [](terminated =>
          \A i \in DOMAIN queue : queue[i].id = lastStarted + i)
  /\ \A i \in 1..MaxCalls :
       (terminated /\ i < nextId)
         ~> /\ Finished(i)
            /\ i \in DOMAIN deferred => deferred[i].st # "pending"

\* The client was terminated with two accepted tasks on the queue, none of
\* them started, their Deferreds pending.
C15_Witness ==
  /\ terminated
  /\ lastCall.op = "terminate"
  /\ lastStarted = 0
  /\ Len(queue) = 2
  /\ \A i \in DOMAIN queue :
       /\ queue[i].def \in DOMAIN deferred
       /\ deferred[queue[i].def].st = "pending"

\* C16: a resolved getDocFromCache(ref) submitted after a deleteDoc(ref)
\* that resolved, with no write to ref submitted between the two, reports
\* the document absent.
C16_DeletedIsAbsent ==
  \A r, d \in DOMAIN deferred :
    (/\ deferred[r].op = "getDocFromCache"
     /\ deferred[r].st = "resolved"
     /\ deferred[d].op = "deleteDoc"
     /\ deferred[d].st = "resolved"
     /\ d < r
     /\ \A w \in WritesBefore(r, TheDoc) : w <= d)
      => ~getDocFromCacheResult(r).exists

\* The document was set, then deleted, the delete resolved, and the read
\* from the cache submitted after it resolved with both writes in its view.
C16_Witness ==
  \E w, d, r \in DOMAIN deferred :
    /\ w < d /\ d < r
    /\ deferred[w].op = "setDoc"
    /\ deferred[d].op = "deleteDoc"
    /\ deferred[d].st = "resolved"
    /\ deferred[r].op = "getDocFromCache"
    /\ deferred[r].st = "resolved"
    /\ deferred[r].val.writes = {w, d}

\* The mutation of a write task, or of an entry of the local view.
MutationOf(x) == [id |-> x.id, key |-> x.key, wk |-> x.wk, pre |-> x.pre]

\* The mutations on the queue, in the running task and in the local view.
Mutations ==
  {MutationOf(queue[i]) : i \in {j \in DOMAIN queue : queue[j].kind = "write"}}
    \cup {MutationOf(t) : t \in {u \in running : u.kind = "write"}}
    \cup {MutationOf(cache[i]) : i \in DOMAIN cache}

\* C17: every mutation comes from one executeWrite (it has the Deferred
\* created with it, and no call has two), and its kind, key and
\* precondition are those of the operation: setDoc none, updateDoc exists,
\* deleteDoc a delete with none, addDoc not-exists on a key no other
\* mutation has.
C17_PreconditionByOperation ==
  LET ms == Mutations
  IN
  /\ \A i \in DOMAIN queue :
       queue[i].kind = "write" => (IsWrite(queue[i].id)
                                   /\ queue[i].def = queue[i].id)
  /\ \A m, n \in ms : m.id = n.id => m = n
  /\ \A m \in ms :
       /\ IsWrite(m.id)
       /\ deferred[m.id].op = "setDoc" =>
            (m.wk = "set" /\ m.pre = "none" /\ m.key = TheDoc)
       /\ deferred[m.id].op = "updateDoc" =>
            (m.wk = "update" /\ m.pre = "exists" /\ m.key = TheDoc)
       /\ deferred[m.id].op = "deleteDoc" =>
            (m.wk = "delete" /\ m.pre = "none" /\ m.key = TheDoc)
       /\ deferred[m.id].op = "addDoc" =>
            /\ m.wk = "add" /\ m.pre = "notExists"
            /\ \A n \in ms : n.id # m.id => n.key # m.key

\* The mutations of an updateDoc, of a deleteDoc and of an addDoc, some
\* applied to the local view and some still on the queue.
C17_Witness ==
  /\ \E m \in Mutations : deferred[m.id].op = "addDoc"
  /\ \E m \in Mutations : deferred[m.id].op = "deleteDoc"
  /\ \E m \in Mutations : deferred[m.id].op = "updateDoc"
  /\ cache # <<>>
  /\ queue # <<>>

\* C18: every write setDoc, updateDoc, deleteDoc or addDoc accepted has
\* its task run to its end and its promise settled, eventually, whatever is
\* interleaved with it; nothing takes its task off the queue or its batch
\* off the commit channel before.
C18_WriteRunsToCompletion ==
  /\ \A w \in 1..MaxCalls :
       IsWrite(w) ~> (/\ Finished(w)
                      /\ w \in DOMAIN deferred
                      /\ executeWriteResult(w) # "pending")
  /\ [][\A w \in DOMAIN deferred :
          (IsWrite(w) /\ executeWriteResult(w) = "pending") =>
            \/ \E i \in DOMAIN queue' : queue'[i].id = w
            \/ \E t \in running' : t.id = w
            \/ \E i \in DOMAIN pipeline' : pipeline'[i].id = w
            \/ executeWriteResult(w)' # "pending"]_vars

\* A write is applied and awaits its commit, submitted behind a read that
\* failed and a write that failed.
C18_Witness ==
  \E r, v, w \in DOMAIN deferred :
    /\ r < v /\ v < w
    /\ deferred[r].op = "getDocFromServer"
    /\ deferred[r].st = "rejected"
    /\ IsWrite(v)
    /\ executeWriteResult(v) = "rejected"
    /\ IsWrite(w)
    /\ executeWriteResult(w) = "pending"
    /\ \E i \in DOMAIN pipeline : pipeline[i].id = w

\* The DocumentSnapshot `d` is the conversion of the view snapshot `v` the
\* assertion of convertToDocSnapshot accepts: at most one document, the
\* key of the reference, and the metadata of the view snapshot.
ConvertedFrom(d, v) ==
  /\ d.size <= 1
  /\ d.size = Cardinality(v.docs)
  /\ d.key = TheDoc
  /\ d.exists = (TheDoc \in v.docs)
  /\ d.hasPendingWrites = v.pending
  /\ d.fromCache = v.fromCache

\* C19: every view snapshot convertToDocSnapshot is called with (by getDoc
\* and getDocFromServer once their read resolved, by the next callback of a
\* document listener) holds at most one document, and the DocumentSnapshot
\* it gives is of the reference's key with the view snapshot's
\* hasPendingWrites and fromCache.
C19_ConvertToDocSnapshot ==
  /\ \A r \in DOMAIN deferred :
       (deferred[r].op \in {"getDoc", "getDocFromServer"}
        /\ deferred[r].st = "resolved")
         => ConvertedFrom(getDocResult(r), deferred[r].val)
  /\ \A l \in DOMAIN listeners :
       (listeners[l].target = TheDoc /\ delivered[l] > 0)
         => ConvertedFrom(listeners[l].got, listeners[l].last)

\* getDoc resolved with the one document of its reference, which has a
\* pending write, while the collection holds a second document.
C19_Witness ==
  \E r \in DOMAIN deferred :
    /\ deferred[r].op = "getDoc"
    /\ deferred[r].st = "resolved"
    /\ getDocResult(r).exists
    /\ getDocResult(r).hasPendingWrites
    /\ Cardinality(DocsOf(cache, TheCollection)) = 2

\* The number of the callbacks in `tm` that are for the listener `l`.
CountFor(tm, l) == Cardinality({i \in DOMAIN tm : tm[i].l = l})

\* C20: in every step the callback of a registered snapshots-in-sync
\* listener is scheduled once if the step sent a snapshot to some query
\* listener and not at all otherwise; in what a step schedules no callback
\* of a query listener comes behind one of a snapshots-in-sync listener;
\* and no step invokes the callback of a snapshots-in-sync listener whose
\* unsubscribe function was called.
C20_SnapshotsInSync ==
  [][LET new == IF Len(timers') > Len(timers)
                THEN SubSeq(timers', Len(timers) + 1, Len(timers'))
                ELSE <<>>
         notified == {l \in DOMAIN listeners :
                        /\ ~listeners[l].sync
                        /\ listeners'[l].sent > listeners[l].sent}
     IN /\ \A s \in DOMAIN listeners :
             listeners[s].sync =>
               /\ CountFor(new, s) =
                    IF notified # {} /\ s \in registry /\ ~listeners[s].muted
                    THEN 1 ELSE 0
               /\ listeners[s].unsubscribed => delivered'[s] = delivered[s]
        /\ \A i, j \in DOMAIN new :
             (i < j /\ listeners[new[i].l].sync) => listeners[new[j].l].sync
  ]_vars

\* One batch scheduled the callbacks of two query listeners and, behind
\* them, that of the snapshots-in-sync listener, which was invoked before.
C20_Witness ==
  \E i \in DOMAIN timers :
    /\ i + 2 \in DOMAIN timers
    /\ ~listeners[timers[i].l].sync
    /\ ~listeners[timers[i + 1].l].sync
    /\ timers[i].l # timers[i + 1].l
    /\ timers[i].snap.writes # {}
    /\ timers[i + 1].snap.writes = timers[i].snap.writes
    /\ listeners[timers[i + 2].l].sync
    /\ delivered[timers[i + 2].l] > 0

\* The registration task of the listener `l` has not run to its end yet.
ListenPending(l) ==
  \/ \E i \in DOMAIN queue : queue[i].kind = "listen" /\ queue[i].lst = l
  \/ \E t \in running : t.kind = "listen" /\ t.lst = l

\* The unsubscribe function of the onSnapshot listener `l` was called before
\* its registration task has run.
UnsubscribedEarly(l) ==
  /\ l \in DOMAIN listeners
  /\ ~listeners[l].sync
  /\ listeners[l].unsubscribed
  /\ ListenPending(l)

\* No callback of the listener `l` was invoked, and none is scheduled.
NoCallback(l) ==
  l \in DOMAIN delivered => (delivered[l] = 0 /\ ~Scheduled(l))

\* C21: no de-registration task of a listener executes while the
\* registration task of that listener has still to run; a listener whose
\* unsubscribe function was called before its registration task ran is
\* registered already muted and no callback of it is ever scheduled or
\* invoked; the step that ends a de-registration task leaves the listener
\* out of the registry, and it never re-enters it.
C21_UnlistenAfterListen ==
  /\ [](\A t \in running : t.kind = "unlisten" => ~ListenPending(t.lst))
  /\ [][\A l \in DOMAIN listeners :
          /\ (UnsubscribedEarly(l) /\ ~ListenPending(l)')
                => (l \in registry' /\ listeners'[l].muted)
          /\ (\E t \in running :
                 t.kind = "unlisten" /\ t.lst = l /\ t \notin running')
                => l \notin registry'
          /\ (~ListenPending(l) /\ l \notin registry) => l \notin registry'
       ]_vars
  /\ \A l \in 1..MaxCalls :
       [](UnsubscribedEarly(l) => []NoCallback(l))

\* unsubscribe was called while the registration task of the listener was
\* executing, with a write in the local view that the first snapshot would
\* show: the de-registration task waits on the queue behind it.
C21_Witness ==
  \E l \in DOMAIN listeners :
    /\ UnsubscribedEarly(l)
    /\ \E t \in running : t.kind = "listen" /\ t.lst = l
    /\ \E i \in DOMAIN queue : queue[i].kind = "unlisten" /\ queue[i].lst = l
    /\ cache # <<>>

\* Document.hasLocalMutations of the cached document `key`: a write to it
\* was applied locally and the commit channel has not answered it.
hasLocalMutations(c, key) ==
  \E i \in DOMAIN c : c[i].key = key /\ c[i].st = "pending"

\* C22: the step that resolves a getDocFromCache gives a snapshot with
\* fromCache true, present exactly when the document is in the cache, and
\* with hasPendingWrites equal to the document's hasLocalMutations when it
\* is present and false when it is absent; every resolved getDocFromCache
\* holds such a snapshot, whatever the commit channel has still to answer.
C22_CacheSnapshotMetadata ==
  /\ [](\A r \in DOMAIN deferred :
          (deferred[r].op = "getDocFromCache" /\ deferred[r].st = "resolved")
            => (/\ getDocFromCacheResult(r).fromCache
                /\ (~getDocFromCacheResult(r).exists
                      => ~getDocFromCacheResult(r).hasPendingWrites)))
  /\ [][\A r \in DOMAIN deferred :
          deferred[r].op = "getDocFromCache" =>
            /\ (deferred[r].st = "pending" /\ deferred'[r].st = "resolved")
                 => (/\ getDocFromCacheResult(r)'.fromCache
                     /\ getDocFromCacheResult(r)'.exists
                          = ExistsAfter(EntriesOf(cache, TheDoc), FALSE)
                     /\ getDocFromCacheResult(r)'.hasPendingWrites
                          = (/\ ExistsAfter(EntriesOf(cache, TheDoc), FALSE)
                             /\ hasLocalMutations(cache, TheDoc)))
            /\ deferred[r].st = "resolved"
                 => getDocFromCacheResult(r)' = getDocFromCacheResult(r)
       ]_vars

\* A getDocFromCache resolved with the document absent while the setDoc and
\* the deleteDoc before it both wait for the commit channel's answer.
C22_Witness ==
  \E w, d, r \in DOMAIN deferred :
    /\ w < d /\ d < r
    /\ deferred[w].op = "setDoc" /\ deferred[w].st = "pending"
    /\ deferred[d].op = "deleteDoc" /\ deferred[d].st = "pending"
    /\ deferred[r].op = "getDocFromCache"
    /\ deferred[r].st = "resolved"
    /\ deferred[r].val.writes = {w, d}
    /\ deferred[r].val.pending
    /\ ~getDocFromCacheResult(r).exists
    /\ Len(pipeline) = 2

====
